---------------------------- MODULE Spec2Model ----------------------------
(***************************************************************************)
(* A model of scripts/record_schedule.py of sat-track: the pass predictor *)
(* (get_local_passes), the scheduler tick (job_check_and_schedule), the   *)
(* recording worker (run_record) and the streaming capture                *)
(* (record_with_pyrtlsdr).                                                 *)
(*                                                                         *)
(* Instants and durations are integers.  The scheduler and the predictor  *)
(* count seconds (datetime/timedelta arithmetic); the capture counts      *)
(* microseconds, and carries the rounding of the doubles it computes with. *)
(***************************************************************************)
EXTENDS Integers, Sequences, FiniteSets, TLC

VARIABLES
    \* ---- pass predictor, called on its own (SpecPasses) ----
    pp_pc,              \* "input" before the call, "done" after it
    pp_alts,            \* altitudes: the elevation samples, in degrees
    pp_minutes_ahead,   \* minutes_ahead
    pp_step,            \* step_minutes
    pp_passes           \* the list get_local_passes returned

VARIABLES
    \* ---- scheduler and workers (Spec) ----
    clock,              \* datetime.utcnow(), in seconds since the process started
    catalog,            \* config['satellites']: the list of satcfg entries
    profile,            \* per satellite, its elevation at each minute
    active_recordings,  \* the module's set active_recordings
    active_lock,        \* the holder of active_lock, or None
    tick,               \* per ticking thread, its place in job_check_and_schedule
    next_fire,          \* the next instant the interval job is due
    receiver,           \* TRUE while an RtlSdr handle is open on the device
    workers             \* the threads started with target=run_record, in order

VARIABLES
    \* ---- one capture job, chunk by chunk (SpecCapture) ----
    cap_pc,             \* the job's place in run_record / record_with_pyrtlsdr
    cap_duration,       \* duration_s, in microseconds
    cap_i,              \* i of `for i in range(total_chunks)`
    cap_sdr,            \* the RtlSdr handle: "none", "open", "closed"
    cap_wf,             \* the wave file: "none", "open", "closed"
    cap_reads,          \* the calls of sdr.read_samples, in order
    cap_block,          \* the block read for the chunk being processed
    cap_prev,           \* prev_sample: the chunk whose last sample it is, 0 for None
    cap_written,        \* the calls of wf.writeframes, in order
    cap_exc,            \* the exception propagating, or "none"
    cap_log,            \* the messages logged, in order
    cap_closes          \* the number of calls of sdr.close()

VARIABLES
    \* ---- load_config called from two threads (SpecReload) ----
    cfg_file,           \* satellites.yaml: its st_mtime and its parsed text
    config_cache,       \* the global _config_cache
    config_mtime,       \* the global _config_mtime
    sats_cache,         \* the global _sats_cache
    loader              \* per thread, its place in load_config and its locals

VARIABLES
    \* ---- the demodulation of a stream, sample by sample (SpecDemod) ----
    dm_pc,              \* "loop" while chunks remain, "done" after
    dm_stream,          \* the raw samples the receiver delivers, in order
    dm_cuts,            \* the lengths of the blocks read_samples returns
    dm_i,               \* i of `for i in range(total_chunks)`
    dm_pos,             \* the number of samples read so far
    dm_prev,            \* prev_sample, or NoSample for None
    dm_out              \* the blocks ph, in order

pp_vars == <<pp_pc, pp_alts, pp_minutes_ahead, pp_step, pp_passes>>

cap_vars == <<cap_pc, cap_duration, cap_i, cap_sdr, cap_wf, cap_reads, cap_block,
              cap_prev, cap_written, cap_exc, cap_log, cap_closes>>

cfg_vars == <<cfg_file, config_cache, config_mtime, sats_cache, loader>>

dm_vars == <<dm_pc, dm_stream, dm_cuts, dm_i, dm_pos, dm_prev, dm_out>>

sched_vars == <<clock, catalog, profile, active_recordings, active_lock, tick,
                next_fire, receiver, workers>>

vars == <<pp_vars, sched_vars, cap_vars, cfg_vars, dm_vars>>

(* What the scheduler's actions leave alone.                               *)
sched_frame == <<pp_vars, cap_vars, cfg_vars, dm_vars>>

-----------------------------------------------------------------------------
(* Bounds of the predictor's inputs.                                       *)
MaxHorizon == 4        \* minutes_ahead ranges over 1..MaxHorizon
MaxStep == 2           \* step_minutes ranges over 1..MaxStep
ScenarioHorizon == 20  \* the horizon of the single-pass profiles

(* Program constants.                                                      *)
ElevMaskDeg == 10      \* elev_mask_deg, the default of get_local_passes
SecondsPerMinute == 60 \* timedelta(minutes=1).total_seconds()

(* Python's None.                                                          *)
None == "None"

(* Elevations on both sides of the mask and on it.                         *)
ElevValues == {ElevMaskDeg - 10, ElevMaskDeg, ElevMaskDeg + 10}

-----------------------------------------------------------------------------
(* get_local_passes                                                        *)

(* timedelta(minutes=m), in seconds.                                       *)
Minutes(m) == m * SecondsPerMinute

(* range(int(minutes_ahead / step_minutes) + 1): the number of samples.    *)
NumSamples(minutes_ahead, step_minutes) == (minutes_ahead \div step_minutes) + 1

(* The scan's locals before the loop: passes = [], inpass = False,         *)
(* start = None.                                                           *)
ScanInit == [passes |-> <<>>, inpass |-> FALSE, start |-> None]

(* A loop body that closes the window and leaves inpass set.               *)
ScanStepNoReset(st, i, alt, t0, step_minutes, mask) ==
    LET opened == IF alt >= mask /\ ~st.inpass
                  THEN [st EXCEPT !.inpass = TRUE,
                                  !.start = t0 + Minutes(i * step_minutes)]
                  ELSE st
    IN  IF alt < mask /\ opened.inpass
        THEN [opened EXCEPT !.passes = Append(@, <<opened.start,
                                                  t0 + Minutes(i * step_minutes)>>)]
        ELSE opened

(* A loop body that opens a window only strictly above the mask.           *)
ScanStepStrictMask(st, i, alt, t0, step_minutes, mask) ==
    LET opened == IF alt > mask /\ ~st.inpass
                  THEN [st EXCEPT !.inpass = TRUE,
                                  !.start = t0 + Minutes(i * step_minutes)]
                  ELSE st
    IN  IF alt <= mask /\ opened.inpass
        THEN [opened EXCEPT !.passes = Append(@, <<opened.start,
                                                  t0 + Minutes(i * step_minutes)>>),
                            !.inpass = FALSE]
        ELSE opened

(* One iteration of `for i, alt in enumerate(altitudes)`: the two ifs in   *)
(* the order of the code.                                                  *)
ScanStep(st, i, alt, t0, step_minutes, mask) ==
    LET opened == IF alt >= mask /\ ~st.inpass
                  THEN [st EXCEPT !.inpass = TRUE,
                                  !.start = t0 + Minutes(i * step_minutes)]
                  ELSE st
    IN  IF alt < mask /\ opened.inpass
        THEN [opened EXCEPT !.passes = Append(@, <<opened.start,
                                                  t0 + Minutes(i * step_minutes)>>),
                            !.inpass = FALSE]
        ELSE opened

(* The loop over the samples i = lo .. hi-1, in order.  The range is cut   *)
(* in two so that the evaluation nests log(n) deep and not n deep: the     *)
(* first half is scanned, then the second half from the state it left    *)
(* (the test of st.inpass makes the evaluation compute st first).          *)
RECURSIVE Scan(_, _, _, _, _, _, _)
Scan(st, lo, hi, altitudes, t0, step_minutes, mask) ==
    IF hi <= lo \/ st.inpass \notin BOOLEAN
    THEN st
    ELSE IF hi = lo + 1
    THEN ScanStep(st, lo, altitudes[lo + 1], t0, step_minutes, mask)
    ELSE LET mid == (lo + hi) \div 2
         IN  Scan(Scan(st, lo, mid, altitudes, t0, step_minutes, mask),
                  mid, hi, altitudes, t0, step_minutes, mask)

(* get_local_passes with the sampled altitudes made explicit: altitudes[k] *)
(* is the elevation at t0 + (k-1) * step_minutes.  Returns the list of     *)
(* (start, end) pairs, in seconds.                                         *)
get_local_passes(altitudes, t0, minutes_ahead, step_minutes, mask) ==
    LET t1 == t0 + Minutes(minutes_ahead)
        st == Scan(ScanInit, 0, Len(altitudes), altitudes, t0, step_minutes, mask)
    IN  IF st.inpass THEN Append(st.passes, <<st.start, t1>>) ELSE st.passes

(* A profile below the mask except on samples rise .. fall-1.              *)
BoxProfile(n, rise, fall) ==
    [k \in 1..n |-> IF rise <= k - 1 /\ k - 1 < fall
                    THEN ElevMaskDeg + 10 ELSE ElevMaskDeg - 10]

-----------------------------------------------------------------------------
(* The scheduler: job_check_and_schedule, run_record and the clock.        *)

(* Bounds.                                                                 *)
MaxClock == 8          \* the clock stops after MaxClock steps of Quantum
ProfileMinutes == 13   \* minutes an elevation profile covers; below the mask after

(* Program constants.                                                      *)
GuardSeconds == 20         \* timedelta(seconds=20) around AOS and LOS
LeadMinutes == 10          \* timedelta(minutes=10), the lead time
TickIntervalSeconds == 60  \* sched.add_job(..., 'interval', seconds=60)
DefaultDuration == 60      \* duration_override or 60
StepMinutesDefault == 1    \* step_minutes=1, the default of get_local_passes
SchedMinutesAhead == 12 * 60  \* get_local_passes(sat, minutes_ahead=12*60)

(* The clock moves in steps of the guard margin, the shortest time the     *)
(* scheduler computes with.                                                *)
Quantum == GuardSeconds

(* The threads that run job_check_and_schedule: the main thread (the call  *)
(* in main before its loop) and the interval job's thread.                 *)
TickThreads == {"main", "sched"}

(* satcfg['freq_mhz']: a finite number, NaN (`freq_mhz: .nan`), or text    *)
(* that is no number (`freq_mhz: abc`).                                    *)
NaN == "nan"
BadFreq == "abc"
FreqValues == {"137.1", NaN, BadFreq}

(* float(satcfg['freq_mhz']) raises ValueError.                            *)
FloatRaises(freq_mhz) == freq_mhz = BadFreq

(* A profile of two passes: minutes r1 .. f1-1 and r2 .. f2-1.             *)
TwoPassProfile(n, r1, f1, r2, f2) ==
    [k \in 1..n |-> IF (r1 <= k - 1 /\ k - 1 < f1) \/ (r2 <= k - 1 /\ k - 1 < f2)
                    THEN ElevMaskDeg + 10 ELSE ElevMaskDeg - 10]

(* The satellites' elevation profiles: one pass, from minute rise up to    *)
(* minute fall, or two passes.                                             *)
RiseFall == {<<0, 1>>, <<0, 2>>, <<1, 2>>, <<10, 11>>, <<11, 12>>}
SchedProfiles ==
    {BoxProfile(ProfileMinutes, rf[1], rf[2]) : rf \in RiseFall}
    \cup {TwoPassProfile(ProfileMinutes, 0, 1, 3, 4)}

(* The profiles of a catalog of two satellites: a pass under way at the    *)
(* start, or a pass one or two minutes ahead.                              *)
FleetProfiles ==
    {BoxProfile(ProfileMinutes, 0, 1), BoxProfile(ProfileMinutes, 1, 2),
     BoxProfile(ProfileMinutes, 2, 3)}

(* The catalogs: one satellite, of any kind of frequency.                  *)
Catalogs == {<<[name |-> "NOAA-19", freq_mhz |-> f]>> : f \in FreqValues}

SatNames == {"NOAA-19"}

(* altaz[0].degrees at instant t (seconds) of a satellite whose elevation  *)
(* profile is prof.                                                        *)
ElevAt(prof, t) ==
    IF t \div SecondsPerMinute < Len(prof)
    THEN prof[(t \div SecondsPerMinute) + 1]
    ELSE ElevMaskDeg - 10

(* The altitudes get_local_passes samples when called at t0.               *)
Altitudes(prof, t0, minutes_ahead, step_minutes) ==
    [k \in 1..NumSamples(minutes_ahead, step_minutes) |->
        ElevAt(prof, t0 + Minutes((k - 1) * step_minutes))]

(* The instants the clock takes.                                           *)
ClockValues == {k * Quantum : k \in 0..MaxClock}

(* get_local_passes(sat, minutes_ahead=12*60) for each profile and each    *)
(* instant t0 of the call, computed once.                                  *)
PassesAt ==
    [prof \in SchedProfiles \cup FleetProfiles, t0 \in ClockValues |->
        get_local_passes(
            Altitudes(prof, t0, SchedMinutesAhead, StepMinutesDefault),
            t0, SchedMinutesAhead, StepMinutesDefault, ElevMaskDeg)]

NoDecision == [kind |-> "none", start |-> 0, stop |-> 0, duration |-> 0]

(* A rule that launches for any future window, however far.                *)
WindowRuleNoLead(aos_utc, los_utc, now) ==
    LET start == aos_utc - GuardSeconds
        stop == los_utc + GuardSeconds
        duration == stop - start
    IN  IF start <= now /\ now <= stop
        THEN [kind |-> "now", start |-> start, stop |-> stop, duration |-> duration]
        ELSE IF start > now
        THEN [kind |-> "later", start |-> start, stop |-> stop, duration |-> duration]
        ELSE NoDecision

(* The body of `for aos_utc, los_utc in passes` up to the lock: which      *)
(* branch, if any, the window takes.                                       *)
WindowRule(aos_utc, los_utc, now) ==
    LET start == aos_utc - GuardSeconds
        stop == los_utc + GuardSeconds
        duration == stop - start     \* int((stop - start).total_seconds())
    IN  IF start <= now /\ now <= stop
        THEN [kind |-> "now", start |-> start, stop |-> stop, duration |-> duration]
        ELSE IF start > now /\ (start - now) < Minutes(LeadMinutes)
        THEN [kind |-> "later", start |-> start, stop |-> stop, duration |-> duration]
        ELSE NoDecision

(* The loop over the passes: the first window that takes a branch ends it  *)
(* (break).                                                                *)
RECURSIVE Decide(_, _, _)
Decide(passes, k, now) ==
    IF k > Len(passes) THEN NoDecision
    ELSE LET d == WindowRule(passes[k][1], passes[k][2], now)
         IN  IF d.kind # "none" THEN d ELSE Decide(passes, k + 1, now)

(* The largest catalog.                                                    *)
MaxSatellites == 2

(* The ticks that can begin before the clock stops launch at most one      *)
(* worker each per satellite: the identities workers can take.             *)
WorkerIds == 1..(MaxSatellites * (((MaxClock * Quantum) \div TickIntervalSeconds) + 2))

(* `with active_lock:` can be entered.                                     *)
LockAlwaysAvailable == TRUE

LockAvailable == ~active_lock

(* The thread started by threading.Thread(target=run_record, args=(freq,   *)
(* name, start-or-None, duration)); tick_now, eff_start and eff_stop keep  *)
(* the launching tick's now, start and stop.                               *)
NewWorker(entry, d, now) ==
    [sat |-> entry.name, freq_mhz |-> entry.freq_mhz,
     deferred |-> (d.kind = "later"),     \* start_time_utc is not None
     start_time_utc |-> IF d.kind = "later" THEN d.start ELSE 0,
     duration_override |-> d.duration,
     tick_now |-> now, eff_start |-> d.start, eff_stop |-> d.stop,
     pc |-> "started", wake |-> 0, captured |-> FALSE, cap_begin |-> 0,
     cap_end |-> 0,
     outcome |-> "none", cause |-> "none"]

IdleTick == [pc |-> "idle", now |-> 0, idx |-> 1, dec |-> NoDecision]

(* The first due instant after t.                                          *)
NextDue(t) == t - (t % TickIntervalSeconds) + TickIntervalSeconds

SchedInit ==
    /\ clock = 0
    /\ catalog \in Catalogs
    /\ profile \in [SatNames -> SchedProfiles]
    /\ active_recordings = {}
    /\ active_lock = FALSE
    /\ tick = [t \in TickThreads |->
                 IF t = "main" THEN [IdleTick EXCEPT !.pc = "init"] ELSE IdleTick]
    /\ next_fire = TickIntervalSeconds
    /\ receiver = FALSE
    /\ workers = <<>>

(* The scheduler's threads and clock while a part is checked on its own.   *)
SchedIdle ==
    /\ clock = 0
    /\ catalog = <<>>
    /\ profile = <<>>
    /\ tick = [t \in TickThreads |-> IdleTick]
    /\ next_fire = 0
    /\ workers = <<>>

(* The scheduler's variables while the predictor is checked on its own.    *)
SchedParked ==
    /\ SchedIdle
    /\ active_recordings = {}
    /\ active_lock = FALSE
    /\ receiver = FALSE

(* job_check_and_schedule entered: now is read, the catalog is loaded.     *)
TickBegin(t) ==
    /\ \/ t = "main" /\ tick[t].pc = "init" /\ UNCHANGED next_fire
       \/ t = "sched" /\ tick[t].pc = "idle" /\ clock >= next_fire
                      /\ next_fire' = NextDue(clock)
    /\ tick' = [tick EXCEPT ![t] = [pc |-> "loop", now |-> clock, idx |-> 1,
                                    dec |-> NoDecision]]
    /\ UNCHANGED <<sched_frame, clock, catalog, profile, active_recordings, active_lock,
                   receiver, workers>>

(* A loop over the catalog that skips an entry whose handling raises.      *)
EntryErrorSkips(idx) == [pc |-> "loop", idx |-> idx + 1]

(* Where the tick goes when the handling of entry idx raises: nothing in   *)
(* the loop catches, the exception leaves job_check_and_schedule.          *)
EntryErrorNext(idx) == [pc |-> "raised", idx |-> idx]

(* One satellite of the catalog: name and float(freq) are read, its passes *)
(* are predicted from the current instant and the first window that        *)
(* matches a branch is taken.                                              *)
TickPredict(t) ==
    /\ tick[t].pc = "loop"
    /\ tick[t].idx <= Len(catalog)
    /\ LET name == catalog[tick[t].idx].name
           passes == PassesAt[profile[name], clock]
           d == Decide(passes, 1, tick[t].now)
       IN  tick' = [tick EXCEPT ![t] =
                      IF FloatRaises(catalog[tick[t].idx].freq_mhz)
                      THEN [@ EXCEPT !.pc = EntryErrorNext(tick[t].idx).pc,
                                     !.idx = EntryErrorNext(tick[t].idx).idx]
                      ELSE IF d.kind = "none"
                      THEN [@ EXCEPT !.idx = @ + 1]
                      ELSE [@ EXCEPT !.pc = "lock", !.dec = d]]
    /\ UNCHANGED <<sched_frame, clock, catalog, profile, active_recordings, active_lock,
                   next_fire, receiver, workers>>

(* `with active_lock:` entered.                                            *)
TickLock(t) ==
    /\ tick[t].pc = "lock"
    /\ LockAvailable
    /\ active_lock' = TRUE
    /\ tick' = [tick EXCEPT ![t].pc = "check"]
    /\ UNCHANGED <<sched_frame, clock, catalog, profile, active_recordings, next_fire,
                   receiver, workers>>

(* `if name not in active_recordings`: taken, or the block is left.        *)
TickCheck(t) ==
    /\ tick[t].pc = "check"
    /\ IF catalog[tick[t].idx].name \notin active_recordings
       THEN /\ tick' = [tick EXCEPT ![t].pc = "add"]
            /\ UNCHANGED active_lock
       ELSE /\ tick' = [tick EXCEPT ![t].pc = "loop", ![t].idx = @ + 1,
                                    ![t].dec = NoDecision]
            /\ active_lock' = FALSE
    /\ UNCHANGED <<sched_frame, clock, catalog, profile, active_recordings, next_fire,
                   receiver, workers>>

(* active_recordings.add(name); Thread(...).start(): the new thread exists *)
(* and may run from here on, while the tick is still inside the            *)
(* `with active_lock:` block.                                              *)
TickAddStart(t) ==
    /\ tick[t].pc = "add"
    /\ active_recordings' = active_recordings \cup {catalog[tick[t].idx].name}
    /\ workers' = Append(workers,
                         NewWorker(catalog[tick[t].idx], tick[t].dec, tick[t].now))
    /\ tick' = [tick EXCEPT ![t].pc = "unlock"]
    /\ UNCHANGED <<sched_frame, clock, catalog, profile, active_lock, next_fire,
                   receiver>>

(* start() has returned: the `with active_lock:` block is left and the     *)
(* loop over the passes is broken out of.                                  *)
TickUnlock(t) ==
    /\ tick[t].pc = "unlock"
    /\ active_lock' = FALSE
    /\ tick' = [tick EXCEPT ![t].pc = "loop", ![t].idx = @ + 1,
                            ![t].dec = NoDecision]
    /\ UNCHANGED <<sched_frame, clock, catalog, profile, active_recordings, next_fire,
                   receiver, workers>>

(* The loop over the catalog is over: the tick returns.                    *)
TickEnd(t) ==
    /\ tick[t].pc = "loop"
    /\ tick[t].idx > Len(catalog)
    /\ tick' = [tick EXCEPT ![t].pc = IF t = "main" THEN "done" ELSE "idle"]
    /\ UNCHANGED <<sched_frame, clock, catalog, profile, active_recordings, active_lock,
                   next_fire, receiver, workers>>

(* The exception has left job_check_and_schedule.  In the interval job's   *)
(* thread the scheduler library logs it and the job stays scheduled.  In   *)
(* the main thread (the call in main, outside any try) it ends main: the   *)
(* process exits and takes its daemon threads, the interval job and the    *)
(* workers, with it.                                                       *)
TickAbort(t) ==
    /\ tick[t].pc = "raised"
    /\ IF t = "sched"
       THEN /\ tick' = [tick EXCEPT ![t].pc = "idle"]
            /\ UNCHANGED workers
       ELSE /\ tick' = [u \in TickThreads |-> [tick[u] EXCEPT !.pc = "exited"]]
            /\ workers' = [w \in DOMAIN workers |->
                             IF workers[w].pc \in {"done", "crashed"}
                             THEN workers[w]
                             ELSE [workers[w] EXCEPT !.pc = "killed"]]
    /\ UNCHANGED <<sched_frame, clock, catalog, profile, active_recordings,
                   active_lock, next_fire, receiver>>

(* A worker that does not wait.                                            *)
SleepDeltaNone(start_ts, now) == 0

(* delta = (start_ts - now).total_seconds()                                *)
SleepDelta(start_ts, now) == start_ts - now

(* run_record up to the wait: with a start instant, delta = start - now    *)
(* and, when positive, time.sleep(delta).                                  *)
WorkerEntry(w) ==
    /\ w <= Len(workers)
    /\ workers[w].pc = "started"
    /\ LET delta == SleepDelta(workers[w].start_time_utc, clock)
       IN  workers' = [workers EXCEPT ![w] =
                         IF workers[w].deferred /\ delta > 0
                         THEN [@ EXCEPT !.pc = "sleeping", !.wake = clock + delta]
                         ELSE [@ EXCEPT !.pc = "naming"]]
    /\ UNCHANGED <<sched_frame, clock, catalog, profile, active_recordings, active_lock, tick,
                   next_fire, receiver>>

(* time.sleep(delta) returns, not before delta has elapsed.                *)
WorkerWake(w) ==
    /\ w <= Len(workers)
    /\ workers[w].pc = "sleeping"
    /\ clock >= workers[w].wake
    /\ workers' = [workers EXCEPT ![w].pc = "naming"]
    /\ UNCHANGED <<sched_frame, clock, catalog, profile, active_recordings, active_lock, tick,
                   next_fire, receiver>>

(* int(freq_mhz*1000) in the output file's name raises on NaN.             *)
NamingRaises(freq_mhz) == freq_mhz = NaN

(* duration_s = duration_override or 60                                    *)
DurationS(duration_override) ==
    IF duration_override = 0 THEN DefaultDuration ELSE duration_override

(* The output name is built, outside the try: an exception here ends the   *)
(* thread at once.                                                         *)
WorkerName(w) ==
    /\ w <= Len(workers)
    /\ workers[w].pc = "naming"
    /\ workers' = [workers EXCEPT ![w] =
                     IF NamingRaises(workers[w].freq_mhz)
                     THEN [@ EXCEPT !.pc = "crashed", !.cause = "naming"]
                     ELSE [@ EXCEPT !.pc = "opening"]]
    /\ UNCHANGED <<sched_frame, clock, catalog, profile, active_recordings, active_lock, tick,
                   next_fire, receiver>>

(* record_with_pyrtlsdr: sdr = RtlSdr() opens the device and the capture   *)
(* begins.                                                                 *)
RecordOpen(w) ==
    /\ w <= Len(workers)
    /\ workers[w].pc = "opening"
    /\ ~receiver
    /\ receiver' = TRUE
    /\ workers' = [workers EXCEPT ![w].pc = "capturing", ![w].captured = TRUE,
                                  ![w].cap_begin = clock]
    /\ UNCHANGED <<sched_frame, clock, catalog, profile, active_recordings, active_lock, tick,
                   next_fire>>

(* An acquisition failure that ends the thread.                            *)
AcquireFailureEscapes == "crashed"

(* Where the worker goes when sdr = RtlSdr() raises: the call is inside    *)
(* run_record's try, so to its except and finally.                         *)
AcquireFailureExit == "finally"

(* sdr = RtlSdr() raises (the device is busy or absent): run_record's      *)
(* except logs "Recording failed".                                         *)
RecordOpenFails(w) ==
    /\ w <= Len(workers)
    /\ workers[w].pc = "opening"
    /\ workers' = [workers EXCEPT ![w].pc = AcquireFailureExit,
                                  ![w].outcome = "failed",
                                  ![w].cause = "acquire", ![w].cap_end = clock]
    /\ UNCHANGED <<sched_frame, clock, catalog, profile, active_recordings, active_lock, tick,
                   next_fire, receiver>>

(* Every chunk was read: wf.close(), "Saved WAV" is logged, sdr.close().   *)
RecordComplete(w) ==
    /\ w <= Len(workers)
    /\ workers[w].pc = "capturing"
    /\ clock >= workers[w].cap_begin + DurationS(workers[w].duration_override)
    /\ receiver' = FALSE
    /\ workers' = [workers EXCEPT ![w].pc = "finally", ![w].outcome = "saved",
                                  ![w].cap_end = clock]
    /\ UNCHANGED <<sched_frame, clock, catalog, profile, active_recordings, active_lock, tick,
                   next_fire>>

(* sdr.read_samples raises on some chunk: the loop is left by break, then  *)
(* wf.close(), "Saved WAV" is logged, sdr.close().                         *)
RecordReadError(w) ==
    /\ w <= Len(workers)
    /\ workers[w].pc = "capturing"
    /\ clock <= workers[w].cap_begin + DurationS(workers[w].duration_override)
    /\ receiver' = FALSE
    /\ workers' = [workers EXCEPT ![w].pc = "finally", ![w].outcome = "saved",
                                  ![w].cause = "read", ![w].cap_end = clock]
    /\ UNCHANGED <<sched_frame, clock, catalog, profile, active_recordings, active_lock, tick,
                   next_fire>>

(* Another statement of the try block raises: sdr.close() in the finally,  *)
(* and run_record's except logs "Recording failed".                        *)
RecordRaises(w) ==
    /\ w <= Len(workers)
    /\ workers[w].pc = "capturing"
    /\ clock <= workers[w].cap_begin + DurationS(workers[w].duration_override)
    /\ receiver' = FALSE
    /\ workers' = [workers EXCEPT ![w].pc = "finally", ![w].outcome = "failed",
                                  ![w].cause = "raise", ![w].cap_end = clock]
    /\ UNCHANGED <<sched_frame, clock, catalog, profile, active_recordings, active_lock, tick,
                   next_fire>>

(* run_record's finally: `with active_lock:` entered.                      *)
WorkerLock(w) ==
    /\ w <= Len(workers)
    /\ workers[w].pc = "finally"
    /\ LockAvailable
    /\ active_lock' = TRUE
    /\ workers' = [workers EXCEPT ![w].pc = "release"]
    /\ UNCHANGED <<sched_frame, clock, catalog, profile, active_recordings, tick, next_fire,
                   receiver>>

(* `if satname in active_recordings: active_recordings.remove(satname)`,   *)
(* the block is left and the thread ends.                                  *)
WorkerRelease(w) ==
    /\ w <= Len(workers)
    /\ workers[w].pc = "release"
    /\ active_recordings' = active_recordings \ {workers[w].sat}
    /\ active_lock' = FALSE
    /\ workers' = [workers EXCEPT ![w].pc = "done"]
    /\ UNCHANGED <<sched_frame, clock, catalog, profile, tick, next_fire, receiver>>

(* The places of a worker where it blocks: time.sleep, the chunk reads,    *)
(* and its end.                                                            *)
WorkerBlocked(w) == workers[w].pc \in {"sleeping", "capturing", "done", "crashed"}

(* Time passes.  A tick takes time where it predicts (between reading now  *)
(* and the call of get_local_passes), a worker where it sleeps or reads    *)
(* chunks; the statements in between take none.  Time does not pass beyond *)
(* an instant a timer is due at: the first tick of main, the interval job  *)
(* when its thread is free, the end of a sleep, the end of a capture.      *)
AdvanceUpTo(steps) ==
    /\ clock < steps * Quantum
    /\ ~active_lock
    /\ \A t \in TickThreads : tick[t].pc \in {"idle", "done", "loop"}
    /\ ~(tick["sched"].pc = "idle" /\ clock >= next_fire)
    /\ \A w \in 1..Len(workers) :
         /\ WorkerBlocked(w)
         /\ ~(workers[w].pc = "sleeping" /\ clock >= workers[w].wake)
         /\ ~(workers[w].pc = "capturing"
              /\ clock >= workers[w].cap_begin
                          + DurationS(workers[w].duration_override))
    /\ clock' = clock + Quantum
    /\ UNCHANGED <<sched_frame, catalog, profile, active_recordings, active_lock, tick,
                   next_fire, receiver, workers>>

Advance == AdvanceUpTo(MaxClock)

SchedNext ==
    \/ \E t \in TickThreads :
         \/ TickBegin(t)
         \/ TickPredict(t)
         \/ TickLock(t)
         \/ TickCheck(t)
         \/ TickAddStart(t)
         \/ TickUnlock(t)
         \/ TickEnd(t)
         \/ TickAbort(t)
    \/ \E w \in WorkerIds :
         \/ WorkerEntry(w)
         \/ WorkerWake(w)
         \/ WorkerName(w)
         \/ RecordOpen(w)
         \/ RecordOpenFails(w)
         \/ RecordComplete(w)
         \/ RecordReadError(w)
         \/ RecordRaises(w)
         \/ WorkerLock(w)
         \/ WorkerRelease(w)
    \/ Advance

(* The predictor's variables while the scheduler runs.                     *)
PPParked ==
    /\ pp_pc = "parked"
    /\ pp_alts = <<>>
    /\ pp_minutes_ahead = 0
    /\ pp_step = 0
    /\ pp_passes = <<>>

(* The capture job's variables while the scheduler runs.                   *)
CapParked ==
    /\ cap_pc = "parked"
    /\ cap_duration = 0
    /\ cap_i = 0
    /\ cap_sdr = "none"
    /\ cap_wf = "none"
    /\ cap_reads = <<>>
    /\ cap_block = 0
    /\ cap_prev = 0
    /\ cap_written = <<>>
    /\ cap_exc = "none"
    /\ cap_log = <<>>
    /\ cap_closes = 0

(* The catalog cache while load_config is not what is checked.            *)
CfgParked ==
    /\ cfg_file = <<>>
    /\ config_cache = <<>>
    /\ config_mtime = 0
    /\ sats_cache = {}
    /\ loader = <<>>

(* The sample stream while the demodulation is not what is checked.        *)
DmParked ==
    /\ dm_pc = "parked"
    /\ dm_stream = <<>>
    /\ dm_cuts = <<>>
    /\ dm_i = 0
    /\ dm_pos = 0
    /\ dm_prev = 0
    /\ dm_out = <<>>

Init == SchedInit /\ PPParked /\ CapParked /\ CfgParked /\ DmParked

Next == SchedNext

Spec == Init /\ [][Next]_vars

-----------------------------------------------------------------------------
(* The same scheduler with a catalog of two satellites.                    *)

(* Bound.                                                                  *)
FleetMaxClock == 5     \* the clock stops after FleetMaxClock steps of Quantum

FleetNames == {"NOAA-18", "NOAA-19"}

(* Each entry's frequency is a number or text that is no number.           *)
FleetCatalogs ==
    {<<[name |-> "NOAA-18", freq_mhz |-> f1], [name |-> "NOAA-19", freq_mhz |-> f2]>> :
        f1 \in {"137.9125", BadFreq}, f2 \in {"137.1", BadFreq}}

FleetInit ==
    /\ clock = 0
    /\ catalog \in FleetCatalogs
    /\ profile \in [FleetNames -> FleetProfiles]
    /\ active_recordings = {}
    /\ active_lock = FALSE
    /\ tick = [t \in TickThreads |->
                 IF t = "main" THEN [IdleTick EXCEPT !.pc = "init"] ELSE IdleTick]
    /\ next_fire = TickIntervalSeconds
    /\ receiver = FALSE
    /\ workers = <<>>
    /\ PPParked /\ CapParked /\ CfgParked /\ DmParked

FleetAdvance == AdvanceUpTo(FleetMaxClock)

(* The scheduler's steps with a receiver that, once opened, delivers every *)
(* chunk: captures end by completion only.                                 *)
FleetNext ==
    \/ \E t \in TickThreads :
         \/ TickBegin(t)
         \/ TickPredict(t)
         \/ TickLock(t)
         \/ TickCheck(t)
         \/ TickAddStart(t)
         \/ TickUnlock(t)
         \/ TickEnd(t)
         \/ TickAbort(t)
    \/ \E w \in WorkerIds :
         \/ WorkerEntry(w)
         \/ WorkerWake(w)
         \/ WorkerName(w)
         \/ RecordOpen(w)
         \/ RecordOpenFails(w)
         \/ RecordComplete(w)
         \/ WorkerLock(w)
         \/ WorkerRelease(w)
    \/ FleetAdvance

SpecFleet == FleetInit /\ [][FleetNext]_vars

-----------------------------------------------------------------------------
(* One capture job, chunk by chunk: run_record from its try block on, and  *)
(* record_with_pyrtlsdr.  Durations are in microseconds.                   *)

(* Bounds.                                                                 *)
MaxDurationSteps == 20     \* duration_s ranges over 1..MaxDurationSteps steps
DurationStepMillis == 125  \* the step of the durations tried, in milliseconds
MaxFallbacks == 2          \* chunks of one job whose decimation may fail

(* Program constants.                                                      *)
RtlSampleRate == 2400000   \* RTL_SAMPLE_RATE, samples per second
ChunkMillis == 250         \* CHUNK_SECONDS = 0.25
MinChunkMillis == 1        \* the 0.001 of max(0.001, remaining)
DecimateStage1 == 50       \* DECIMATE_STAGE1
DecimateStage2 == 4        \* DECIMATE_STAGE2
OutSampleRate == 12000     \* OUT_SAMPLE_RATE, frames per second

CapSat == "NOAA-19"

MicrosPerMilli == 1000
MicrosPerSecond == 1000000

ChunkMicros == ChunkMillis * MicrosPerMilli
MinChunkMicros == MinChunkMillis * MicrosPerMilli

(* duration_s = 10 and duration_s = 10.1                                   *)
ScenarioDurations == {10 * MicrosPerSecond, 10 * MicrosPerSecond + 100 * MicrosPerMilli}

(* duration_s = 0.0005 and duration_s = 0.2505: the time left for the last *)
(* chunk is below 0.001 s.                                                 *)
ShortTailDurations == {MicrosPerMilli \div 2, ChunkMicros + MicrosPerMilli \div 2}

CapDurations ==
    {k * DurationStepMillis * MicrosPerMilli : k \in 1..MaxDurationSteps}
    \cup ScenarioDurations \cup ShortTailDurations

Max2(a, b) == IF a >= b THEN a ELSE b
Min2(a, b) == IF a <= b THEN a ELSE b

(* np.ceil(a / b) for positive b.                                          *)
CeilDiv(a, b) == (a + b - 1) \div b

(* A chunk count that drops the part of a chunk left at the end.           *)
TotalChunksFloor(duration) == Max2(1, duration \div ChunkMicros)

(* total_chunks = max(1, int(np.ceil(duration_s / CHUNK_SECONDS)))         *)
TotalChunks(duration) == Max2(1, CeilDiv(duration, ChunkMicros))

(* cur_chunk_s = min(CHUNK_SECONDS, max(0.001, duration_s - i*CHUNK_SECONDS)) *)
CurChunkMicros(duration, i) ==
    Min2(ChunkMicros, Max2(MinChunkMicros, duration - i * ChunkMicros))

RECURSIVE Pow2(_)
Pow2(k) == IF k = 0 THEN 1 ELSE 2 * Pow2(k - 1)

(* 2^k modulo m.                                                           *)
RECURSIVE Pow2Mod(_, _)
Pow2Mod(k, m) == IF k = 0 THEN 1 % m ELSE (2 * Pow2Mod(k - 1, m)) % m

RECURSIVE ExpUp(_, _, _)
ExpUp(num, den, e) ==
    IF den * Pow2(e + 1) <= num THEN ExpUp(num, den, e + 1) ELSE e

RECURSIVE ExpDown(_, _, _)
ExpDown(num, den, e) ==
    IF num * Pow2(-e) < den THEN ExpDown(num, den, e - 1) ELSE e

(* The binary exponent of the double num/den: floor(log2(num/den)).        *)
FloatExp(num, den) ==
    IF num >= den THEN ExpUp(num, den, 0) ELSE ExpDown(num, den, 0)

(* The binary exponent of the largest double below the integer n >= 2.     *)
RECURSIVE ExpBelow(_, _)
ExpBelow(n, e) == IF Pow2(e + 1) < n THEN ExpBelow(n, e + 1) ELSE e

(* 5^6: duration/10^6 = duration/(2^6 * 5^6).                              *)
FiveToSixth == 15625

(* int(RTL_SAMPLE_RATE * cur_chunk_s) falls one short of the integer n the *)
(* exact product is.  duration_s is the double nearest to duration/10^6;   *)
(* r/5^6 is the part of an ulp it is rounded by, downwards when below one  *)
(* half.  duration_s - i*CHUNK_SECONDS is exact, so cur_chunk_s is below   *)
(* its decimal value by that much, the product is below n by               *)
(* RTL_SAMPLE_RATE times that much, and the multiplication rounds it to a  *)
(* double below n when that exceeds half the spacing of the doubles below  *)
(* n:  2400000 * (r/5^6) * 2^(eD-52) > 2^(eN-53).                          *)
RoundsShort(duration, n) ==
    LET eD == FloatExp(duration, MicrosPerSecond)
        r == ((duration % FiveToSixth) * Pow2Mod(46 - eD, FiveToSixth)) % FiveToSixth
        k == ExpBelow(n, 0) - eD - 1
        lhs == (RtlSampleRate \div 3125) * r
        rhs == 5
    IN  /\ r # 0
        /\ 2 * r < FiveToSixth
        /\ IF k >= 0 THEN lhs > rhs * Pow2(k) ELSE lhs * Pow2(-k) > rhs

(* cur_samples = int(RTL_SAMPLE_RATE * cur_chunk_s).  A whole chunk        *)
(* (0.25) and the floor (0.001) are constants of the code and give 600000  *)
(* and 2400; a product that is no integer is cut; a product that is an     *)
(* integer is reached or missed by one.                                    *)
CurSamples(duration, i) ==
    LET rem == duration - i * ChunkMicros
        prod == (RtlSampleRate \div MicrosPerMilli) * CurChunkMicros(duration, i)
        n == prod \div MicrosPerMilli
    IN  IF rem >= ChunkMicros \/ rem <= MinChunkMicros \/ prod % MicrosPerMilli # 0
        THEN n
        ELSE IF RoundsShort(duration, n) THEN n - 1 ELSE n

(* fm_demodulate: len(ph) for a block of n samples; prev is 0 for None.    *)
(* With an anchor the block is one longer before the difference is taken.  *)
PhLen(n, prev) == IF prev = 0 THEN n - 1 ELSE n

(* A decimation stage that keeps every sample.                             *)
DecimatedLenNone(n, q) == n

(* len(decimate(x, q, ftype='fir', zero_phase=True)) for len(x) = n.       *)
DecimatedLen(n, q) == CeilDiv(n, q)

(* len(ph[::q]) for len(ph) = n.                                           *)
StrideLen(n, q) == CeilDiv(n, q)

(* A read error handler that goes on with the next chunk.                  *)
ReadErrorContinues(i) == [pc |-> "loop", i |-> i + 1]

(* `except Exception as e: log.exception(...); break`: where the loop goes *)
(* after a read error in iteration i.                                      *)
ReadErrorNext(i) == [pc |-> "close", i |-> i]

Fallbacks == Cardinality({m \in 1..Len(cap_written) : cap_written[m].fallback})

CapInit ==
    /\ cap_pc = "call"
    /\ cap_duration \in CapDurations
    /\ cap_i = 0
    /\ cap_sdr = "none"
    /\ cap_wf = "none"
    /\ cap_reads = <<>>
    /\ cap_block = 0
    /\ cap_prev = 0
    /\ cap_written = <<>>
    /\ cap_exc = "none"
    /\ cap_log = <<>>
    /\ cap_closes = 0
    /\ SchedIdle
    /\ active_recordings = {CapSat}
    /\ active_lock = FALSE
    /\ receiver = FALSE
    /\ PPParked
    /\ CfgParked
    /\ DmParked

cap_frame == <<pp_vars, cfg_vars, dm_vars, clock, catalog, profile, tick, next_fire, workers>>

(* sdr = RtlSdr()                                                          *)
CapAcquire ==
    /\ cap_pc = "call"
    /\ cap_sdr' = "open"
    /\ receiver' = TRUE
    /\ cap_pc' = "configure"
    /\ UNCHANGED <<cap_frame, cap_closes, active_recordings, active_lock, cap_duration, cap_i,
                   cap_wf, cap_reads, cap_block, cap_prev, cap_written, cap_exc,
                   cap_log>>

(* sdr = RtlSdr() raises: no handle, nothing to close; the exception       *)
(* reaches run_record.                                                     *)
CapAcquireFails ==
    /\ cap_pc = "call"
    /\ cap_exc' = "acquire"
    /\ cap_pc' = "except"
    /\ UNCHANGED <<cap_frame, cap_closes, active_recordings, active_lock, receiver,
                   cap_duration, cap_i, cap_sdr, cap_wf, cap_reads, cap_block,
                   cap_prev, cap_written, cap_log>>

(* sample_rate, center_freq, gain are set; total_chunks; prev_sample = None *)
CapConfigure ==
    /\ cap_pc = "configure"
    /\ cap_prev' = 0
    /\ cap_pc' = "openwav"
    /\ UNCHANGED <<cap_frame, cap_closes, active_recordings, active_lock, receiver,
                   cap_duration, cap_i, cap_sdr, cap_wf, cap_reads, cap_block,
                   cap_written, cap_exc, cap_log>>

(* An exception that leaves the try block without the finally.             *)
RaiseExitNoFinally(exc) == "except"

(* `try: ... finally: sdr.close()`: where an exception raised inside the   *)
(* try block goes first.                                                   *)
RaiseExit(exc) == "sdrclose"

(* Setting up the receiver raises.                                         *)
CapConfigureFails ==
    /\ cap_pc = "configure"
    /\ cap_exc' = "config"
    /\ cap_pc' = RaiseExit("config")
    /\ UNCHANGED <<cap_frame, cap_closes, active_recordings, active_lock, receiver,
                   cap_duration, cap_i, cap_sdr, cap_wf, cap_reads, cap_block,
                   cap_prev, cap_written, cap_log>>

(* wf = wave.open(outpath, 'wb') and its header; the loop starts at i = 0. *)
CapOpenWav ==
    /\ cap_pc = "openwav"
    /\ cap_wf' = "open"
    /\ cap_i' = 0
    /\ cap_pc' = "loop"
    /\ UNCHANGED <<cap_frame, cap_closes, active_recordings, active_lock, receiver,
                   cap_duration, cap_sdr, cap_reads, cap_block, cap_prev,
                   cap_written, cap_exc, cap_log>>

(* wave.open raises.                                                       *)
CapOpenWavFails ==
    /\ cap_pc = "openwav"
    /\ cap_exc' = "open"
    /\ cap_pc' = RaiseExit("open")
    /\ UNCHANGED <<cap_frame, cap_closes, active_recordings, active_lock, receiver,
                   cap_duration, cap_i, cap_sdr, cap_wf, cap_reads, cap_block,
                   cap_prev, cap_written, cap_log>>

(* iq = sdr.read_samples(cur_samples)                                      *)
CapRead ==
    /\ cap_pc = "loop"
    /\ cap_i < TotalChunks(cap_duration)
    /\ cap_reads' = Append(cap_reads,
                           [chunk |-> cap_i + 1,
                            micros |-> CurChunkMicros(cap_duration, cap_i),
                            samples |-> CurSamples(cap_duration, cap_i),
                            ok |-> TRUE])
    /\ cap_block' = CurSamples(cap_duration, cap_i)
    /\ cap_pc' = "process"
    /\ UNCHANGED <<cap_frame, cap_closes, active_recordings, active_lock, receiver,
                   cap_duration, cap_i, cap_sdr, cap_wf, cap_prev, cap_written,
                   cap_exc, cap_log>>

(* sdr.read_samples raises: the error is logged and the loop is left.      *)
CapReadFails ==
    /\ cap_pc = "loop"
    /\ cap_i < TotalChunks(cap_duration)
    /\ cap_reads' = Append(cap_reads,
                           [chunk |-> cap_i + 1,
                            micros |-> CurChunkMicros(cap_duration, cap_i),
                            samples |-> CurSamples(cap_duration, cap_i),
                            ok |-> FALSE])
    /\ cap_log' = Append(cap_log, "SDR read error")
    /\ cap_pc' = ReadErrorNext(cap_i).pc
    /\ cap_i' = ReadErrorNext(cap_i).i
    /\ UNCHANGED <<cap_frame, cap_closes, active_recordings, active_lock, receiver,
                   cap_duration, cap_sdr, cap_wf, cap_block, cap_prev,
                   cap_written, cap_exc>>

(* range(total_chunks) is exhausted.                                       *)
CapLoopEnd ==
    /\ cap_pc = "loop"
    /\ cap_i >= TotalChunks(cap_duration)
    /\ cap_pc' = "close"
    /\ UNCHANGED <<cap_frame, cap_closes, active_recordings, active_lock, receiver,
                   cap_duration, cap_i, cap_sdr, cap_wf, cap_reads, cap_block,
                   cap_prev, cap_written, cap_exc, cap_log>>

(* The chunk is demodulated, decimated in two stages, normalized,          *)
(* converted and written; prev_sample becomes this chunk's last sample.    *)
CapProcess ==
    /\ cap_pc = "process"
    /\ cap_written' = Append(cap_written,
          [chunk |-> cap_i + 1,
           frames |-> DecimatedLen(DecimatedLen(PhLen(cap_block, cap_prev),
                                                DecimateStage1),
                                   DecimateStage2),
           fallback |-> FALSE])
    /\ cap_prev' = cap_i + 1
    /\ cap_i' = cap_i + 1
    /\ cap_pc' = "loop"
    /\ UNCHANGED <<cap_frame, cap_closes, active_recordings, active_lock, receiver,
                   cap_duration, cap_sdr, cap_wf, cap_reads, cap_block, cap_exc,
                   cap_log>>

(* A decimation error handler that leaves the loop.                        *)
DecimateErrorBreaks(i) == [pc |-> "close", i |-> i]

(* `except Exception: audio_12k = ph[::...]`: the handler falls through to *)
(* the normalization, the conversion and wf.writeframes of the same        *)
(* iteration, and the loop goes on with the next one.                      *)
DecimateErrorNext(i) == [pc |-> "loop", i |-> i + 1]

(* decimate raises: audio_12k = ph[::DECIMATE_STAGE1 * DECIMATE_STAGE2],   *)
(* then as above.                                                          *)
CapProcessFallback ==
    /\ cap_pc = "process"
    /\ Fallbacks < MaxFallbacks
    /\ cap_written' = Append(cap_written,
          [chunk |-> cap_i + 1,
           frames |-> StrideLen(PhLen(cap_block, cap_prev),
                                DecimateStage1 * DecimateStage2),
           fallback |-> TRUE])
    /\ cap_prev' = cap_i + 1
    /\ cap_i' = DecimateErrorNext(cap_i).i
    /\ cap_pc' = DecimateErrorNext(cap_i).pc
    /\ UNCHANGED <<cap_frame, cap_closes, active_recordings, active_lock, receiver,
                   cap_duration, cap_sdr, cap_wf, cap_reads, cap_block, cap_exc,
                   cap_log>>

(* Demodulation, normalization, conversion or wf.writeframes raises: the   *)
(* exception leaves the loop and the try block.                            *)
CapProcessRaises ==
    /\ cap_pc = "process"
    /\ cap_exc' = "process"
    /\ cap_pc' = RaiseExit("process")
    /\ UNCHANGED <<cap_frame, cap_closes, active_recordings, active_lock, receiver,
                   cap_duration, cap_i, cap_sdr, cap_wf, cap_reads, cap_block,
                   cap_prev, cap_written, cap_log>>

(* wf.close(); log.info("[PY-RTLSDR] Saved WAV ...")                       *)
CapClose ==
    /\ cap_pc = "close"
    /\ cap_wf' = "closed"
    /\ cap_log' = Append(cap_log, "Saved WAV")
    /\ cap_pc' = "sdrclose"
    /\ UNCHANGED <<cap_frame, cap_closes, active_recordings, active_lock, receiver,
                   cap_duration, cap_i, cap_sdr, cap_reads, cap_block, cap_prev,
                   cap_written, cap_exc>>

(* finally: sdr.close(); then the return, or the exception goes on to      *)
(* run_record.                                                             *)
CapSdrClose ==
    /\ cap_pc = "sdrclose"
    /\ cap_sdr' = "closed"
    /\ cap_closes' = cap_closes + 1
    /\ receiver' = FALSE
    /\ cap_pc' = IF cap_exc = "none" THEN "finally" ELSE "except"
    /\ UNCHANGED <<cap_frame, active_recordings, active_lock, cap_duration, cap_i,
                   cap_wf, cap_reads, cap_block, cap_prev, cap_written, cap_exc,
                   cap_log>>

(* What becomes of the wave file when the handler ends and the exception,  *)
(* its traceback and the frame of record_with_pyrtlsdr with its local wf   *)
(* are dropped.  No statement closes wf on this path; an interpreter that  *)
(* counts references runs Wave_write.__del__, which closes the file, as    *)
(* soon as nothing holds the traceback, any other leaves the file open.    *)
DroppedWf(wf) == IF wf = "open" THEN {"open", "closed"} ELSE {wf}

(* run_record: except Exception: log.exception("Recording failed for %s")  *)
RunExcept ==
    /\ cap_pc = "except"
    /\ cap_log' = Append(cap_log, "Recording failed")
    /\ cap_wf' \in DroppedWf(cap_wf)
    /\ cap_pc' = "finally"
    /\ UNCHANGED <<cap_frame, cap_closes, active_recordings, active_lock, receiver,
                   cap_duration, cap_i, cap_sdr, cap_reads, cap_block,
                   cap_prev, cap_written, cap_exc>>

(* run_record: finally: `with active_lock:` entered.                       *)
RunFinallyLock ==
    /\ cap_pc = "finally"
    /\ LockAvailable
    /\ active_lock' = TRUE
    /\ cap_pc' = "release"
    /\ UNCHANGED <<cap_frame, cap_closes, active_recordings, receiver, cap_duration, cap_i,
                   cap_sdr, cap_wf, cap_reads, cap_block, cap_prev, cap_written,
                   cap_exc, cap_log>>

(* The name is removed if present, the block is left,                      *)
(* log.info("Recording finished for %s").                                  *)
RunRelease ==
    /\ cap_pc = "release"
    /\ active_recordings' = active_recordings \ {CapSat}
    /\ active_lock' = FALSE
    /\ cap_log' = Append(cap_log, "Recording finished")
    /\ cap_pc' = "done"
    /\ UNCHANGED <<cap_frame, cap_closes, receiver, cap_duration, cap_i, cap_sdr, cap_wf,
                   cap_reads, cap_block, cap_prev, cap_written, cap_exc>>

CapNext ==
    \/ CapAcquire
    \/ CapAcquireFails
    \/ CapConfigure
    \/ CapConfigureFails
    \/ CapOpenWav
    \/ CapOpenWavFails
    \/ CapRead
    \/ CapReadFails
    \/ CapLoopEnd
    \/ CapProcess
    \/ CapProcessFallback
    \/ CapProcessRaises
    \/ CapClose
    \/ CapSdrClose
    \/ RunExcept
    \/ RunFinallyLock
    \/ RunRelease

SpecCapture == CapInit /\ [][CapNext]_vars

-----------------------------------------------------------------------------
(* load_config, statement by statement, called from the main thread (the   *)
(* forced load at startup, the first check, the reload loop) and from the  *)
(* interval job's thread (the tick), while satellites.yaml is edited.      *)

(* Bound.                                                                  *)
MaxEdits == 2          \* the times satellites.yaml is rewritten

(* A key an entry of the file lacks.                                       *)
Missing == "missing"

(* Entries of data['satellites'].                                          *)
GoodEntry(n, epoch) == [name |-> n, tle1 |-> epoch, tle2 |-> epoch]
NoTleEntry(n) == [name |-> n, tle1 |-> Missing, tle2 |-> Missing]
NoNameEntry == [name |-> Missing, tle1 |-> "e1", tle2 |-> "e1"]

(* The texts satellites.yaml holds, parsed: one satellite, the same with   *)
(* newer elements, two satellites, and lists with one malformed entry.     *)
CfgTexts ==
    { <<GoodEntry("NOAA-18", "e1")>>,
      <<GoodEntry("NOAA-18", "e2")>>,
      <<GoodEntry("NOAA-18", "e1"), GoodEntry("NOAA-19", "e1")>>,
      <<NoTleEntry("NOAA-15"), GoodEntry("NOAA-19", "e1")>>,
      <<GoodEntry("NOAA-18", "e1"), NoNameEntry>> }

(* entry['name'], entry['tle1'] or entry['tle2'] raises KeyError.          *)
EntryRaises(entry) ==
    entry.name = Missing \/ entry.tle1 = Missing \/ entry.tle2 = Missing

(* The loop of lines 94-98 raises on some entry of data.                   *)
ParseRaises(data) == \E k \in 1..Len(data) : EntryRaises(data[k])

(* sats after the loop of lines 94-98 over data: the EarthSatellite built  *)
(* for each entry, by name.                                                *)
BuildSats(data) == {data[k] : k \in 1..Len(data)}

(* The entries of data that have every key.                                *)
WellFormed(data) == {data[k] : k \in {j \in 1..Len(data) : ~EntryRaises(data[j])}}

NoCache == [loaded |-> FALSE, data |-> <<>>]

NoReturn == [kind |-> "none", config |-> <<>>, sats |-> {}]

IdleLoader ==
    [pc |-> "idle", call |-> "none", force |-> FALSE, mtime |-> 0,
     data |-> <<>>, sats |-> {}, ret |-> NoReturn]

ReloadInit ==
    /\ cfg_file \in {[mtime |-> 1, data |-> d, past |-> <<d>>] : d \in CfgTexts}
    /\ config_cache = NoCache
    /\ config_mtime = 0
    /\ sats_cache = {}
    /\ loader = [t \in TickThreads |-> IdleLoader]
    /\ SchedParked /\ PPParked /\ CapParked /\ DmParked

reload_frame == <<pp_vars, sched_vars, cap_vars, dm_vars>>

(* satellites.yaml is rewritten: new text, new st_mtime.                   *)
FileEdit ==
    /\ cfg_file.mtime <= MaxEdits
    /\ \E d \in CfgTexts \ {cfg_file.data} :
         cfg_file' = [mtime |-> cfg_file.mtime + 1, data |-> d,
                      past |-> Append(cfg_file.past, d)]
    /\ UNCHANGED <<reload_frame, config_cache, config_mtime, sats_cache, loader>>

(* main has done its forced load: the scheduler is started and main goes   *)
(* on to the first check and the loop.                                     *)
Started == loader["main"].call # "none" /\ loader["main"].call # "init"

(* load_config is called: by main with force=True at startup, then by the  *)
(* first check and by the loop; by the interval job in each tick.          *)
LoadCall(t) ==
    /\ loader[t].pc = "idle"
    /\ \/ /\ t = "main"
          /\ loader[t].call = "none"
          /\ loader' = [loader EXCEPT ![t] =
                          [IdleLoader EXCEPT !.pc = "stat", !.call = "init",
                                             !.force = TRUE]]
       \/ /\ t = "main"
          /\ loader[t].call = "ready"
          /\ loader' = [loader EXCEPT ![t] =
                          [IdleLoader EXCEPT !.pc = "stat", !.call = "tick"]]
       \/ /\ t = "main"
          /\ loader[t].call \in {"tick", "loop"}
          /\ loader' = [loader EXCEPT ![t] =
                          [IdleLoader EXCEPT !.pc = "stat", !.call = "loop"]]
       \/ /\ t = "sched"
          /\ Started
          /\ loader' = [loader EXCEPT ![t] =
                          [IdleLoader EXCEPT !.pc = "stat", !.call = "tick"]]
    /\ UNCHANGED <<reload_frame, cfg_file, config_cache, config_mtime, sats_cache>>

(* mtime = CONFIG_PATH.stat().st_mtime                                     *)
LoadStat(t) ==
    /\ loader[t].pc = "stat"
    /\ loader' = [loader EXCEPT ![t].mtime = cfg_file.mtime, ![t].pc = "check"]
    /\ UNCHANGED <<reload_frame, cfg_file, config_cache, config_mtime, sats_cache>>

(* if not force and _config_cache is not None and mtime == _config_mtime   *)
LoadCheck(t) ==
    /\ loader[t].pc = "check"
    /\ loader' = [loader EXCEPT ![t].pc =
                    IF ~loader[t].force /\ config_cache.loaded
                       /\ loader[t].mtime = config_mtime
                    THEN "cached" ELSE "read"]
    /\ UNCHANGED <<reload_frame, cfg_file, config_cache, config_mtime, sats_cache>>

(* return _config_cache, _sats_cache: the first global is read.            *)
LoadCachedConfig(t) ==
    /\ loader[t].pc = "cached"
    /\ loader' = [loader EXCEPT ![t].ret.config = config_cache.data,
                                ![t].pc = "cached2"]
    /\ UNCHANGED <<reload_frame, cfg_file, config_cache, config_mtime, sats_cache>>

(* return _config_cache, _sats_cache: the second global is read and the    *)
(* pair is returned.                                                       *)
LoadCachedSats(t) ==
    /\ loader[t].pc = "cached2"
    /\ loader' = [loader EXCEPT ![t].ret.sats = sats_cache,
                                ![t].ret.kind = "cached",
                                ![t].pc = "returned"]
    /\ UNCHANGED <<reload_frame, cfg_file, config_cache, config_mtime, sats_cache>>

(* data = yaml.safe_load(CONFIG_PATH.read_text())                          *)
LoadRead(t) ==
    /\ loader[t].pc = "read"
    /\ loader' = [loader EXCEPT ![t].data = cfg_file.data, ![t].pc = "parse"]
    /\ UNCHANGED <<reload_frame, cfg_file, config_cache, config_mtime, sats_cache>>

(* sats = {}; for entry in data.get('satellites', []): ... : the loop      *)
(* builds sats, or raises KeyError on the first entry that lacks a key.    *)
LoadParse(t) ==
    /\ loader[t].pc = "parse"
    /\ loader' = [loader EXCEPT ![t] =
                    IF ParseRaises(loader[t].data)
                    THEN [@ EXCEPT !.pc = "raised"]
                    ELSE [@ EXCEPT !.sats = BuildSats(loader[t].data),
                                   !.pc = "store1"]]
    /\ UNCHANGED <<reload_frame, cfg_file, config_cache, config_mtime, sats_cache>>

(* _config_cache = data                                                    *)
LoadStoreConfig(t) ==
    /\ loader[t].pc = "store1"
    /\ config_cache' = [loaded |-> TRUE, data |-> loader[t].data]
    /\ loader' = [loader EXCEPT ![t].pc = "store2"]
    /\ UNCHANGED <<reload_frame, cfg_file, config_mtime, sats_cache>>

(* _config_mtime = mtime                                                   *)
LoadStoreMtime(t) ==
    /\ loader[t].pc = "store2"
    /\ config_mtime' = loader[t].mtime
    /\ loader' = [loader EXCEPT ![t].pc = "store3"]
    /\ UNCHANGED <<reload_frame, cfg_file, config_cache, sats_cache>>

(* _sats_cache = sats; return data, sats                                   *)
LoadStoreSats(t) ==
    /\ loader[t].pc = "store3"
    /\ sats_cache' = loader[t].sats
    /\ loader' = [loader EXCEPT ![t].ret = [kind |-> "fresh",
                                            config |-> loader[t].data,
                                            sats |-> loader[t].sats],
                                ![t].pc = "returned"]
    /\ UNCHANGED <<reload_frame, cfg_file, config_cache, config_mtime>>

(* The caller has the pair: main goes on (to sched.start() and the first   *)
(* check after the forced load), the tick goes on to its loop.             *)
LoadReturned(t) ==
    /\ loader[t].pc = "returned"
    /\ loader' = [loader EXCEPT ![t].pc = "idle",
                                ![t].call = IF @ = "init" THEN "ready" ELSE @]
    /\ UNCHANGED <<reload_frame, cfg_file, config_cache, config_mtime, sats_cache>>

(* load_config raised.  The forced load at startup is outside any try: it  *)
(* ends main before the scheduler is started.  The tick logs "Failed       *)
(* loading config" and returns without looking at any satellite; the loop  *)
(* of main passes.                                                         *)
LoadRaised(t) ==
    /\ loader[t].pc = "raised"
    /\ loader' = [loader EXCEPT ![t].pc =
                    IF loader[t].call = "init" THEN "exited" ELSE "idle"]
    /\ UNCHANGED <<reload_frame, cfg_file, config_cache, config_mtime, sats_cache>>

ReloadNext ==
    \/ FileEdit
    \/ \E t \in TickThreads :
         \/ LoadCall(t)
         \/ LoadStat(t)
         \/ LoadCheck(t)
         \/ LoadCachedConfig(t)
         \/ LoadCachedSats(t)
         \/ LoadRead(t)
         \/ LoadParse(t)
         \/ LoadStoreConfig(t)
         \/ LoadStoreMtime(t)
         \/ LoadStoreSats(t)
         \/ LoadReturned(t)
         \/ LoadRaised(t)

SpecReload == ReloadInit /\ [][ReloadNext]_vars

-----------------------------------------------------------------------------
(* The demodulation of a stream, sample by sample: the loop of             *)
(* record_with_pyrtlsdr from the read to fm_demodulate, on short blocks.   *)
(* A sample is a point of the unit circle, given by its phase in steps of  *)
(* a turn divided by PhaseSteps.                                           *)

(* Bounds.                                                                 *)
MaxStream == 4         \* the samples the receiver delivers in all
PhaseSteps == 3        \* the phases a sample can have

(* prev_sample is None.                                                    *)
NoSample == -1

PhaseValues == 0..(PhaseSteps - 1)

(* np.angle(b * np.conj(a)): the phase of b less the phase of a, brought   *)
(* into (-pi, pi], in the same steps.                                      *)
Angle(b, a) ==
    LET y == (b - a) % PhaseSteps
    IN  IF 2 * y > PhaseSteps THEN y - PhaseSteps ELSE y

(* fm_demodulate without the continuity anchor.                            *)
fm_demodulate_unanchored(iq, prev_sample) ==
    [ph |-> [j \in 1..(Len(iq) - 1) |-> Angle(iq[j + 1], iq[j])],
     last |-> iq[Len(iq)]]

(* fm_demodulate(iq, prev_sample): the anchor is put before the block,     *)
(* ph[j] is the angle from each sample to the next, and the last sample    *)
(* is returned with it.                                                    *)
fm_demodulate(iq, prev_sample) ==
    LET ext == IF prev_sample # NoSample THEN <<prev_sample>> \o iq ELSE iq
    IN  [ph |-> [j \in 1..(Len(ext) - 1) |-> Angle(ext[j + 1], ext[j])],
         last |-> ext[Len(ext)]]

RECURSIVE SeqSum(_)
SeqSum(q) == IF q = <<>> THEN 0 ELSE Head(q) + SeqSum(Tail(q))

(* The ways read_samples cuts a stream of n samples into blocks.           *)
Cuts(n) ==
    {c \in UNION {[1..k -> 1..n] : k \in 1..n} : SeqSum(c) = n}

DemodInit ==
    /\ dm_pc = "loop"
    /\ \E n \in 1..MaxStream :
         /\ dm_stream \in [1..n -> PhaseValues]
         /\ dm_cuts \in Cuts(n)
    /\ dm_i = 0
    /\ dm_pos = 0
    /\ dm_prev = NoSample
    /\ dm_out = <<>>
    /\ SchedParked /\ PPParked /\ CapParked /\ CfgParked

(* iq = sdr.read_samples(cur_samples);                                     *)
(* ph, prev_sample = fm_demodulate(iq, prev_sample)                        *)
DemodChunk ==
    /\ dm_pc = "loop"
    /\ dm_i < Len(dm_cuts)
    /\ LET iq == SubSeq(dm_stream, dm_pos + 1, dm_pos + dm_cuts[dm_i + 1])
           res == fm_demodulate(iq, dm_prev)
       IN  /\ dm_out' = Append(dm_out, res.ph)
           /\ dm_prev' = res.last
    /\ dm_pos' = dm_pos + dm_cuts[dm_i + 1]
    /\ dm_i' = dm_i + 1
    /\ UNCHANGED <<dm_pc, dm_stream, dm_cuts>>
    /\ UNCHANGED <<pp_vars, sched_vars, cap_vars, cfg_vars>>

(* range(total_chunks) is exhausted.                                       *)
DemodEnd ==
    /\ dm_pc = "loop"
    /\ dm_i = Len(dm_cuts)
    /\ dm_pc' = "done"
    /\ UNCHANGED <<dm_stream, dm_cuts, dm_i, dm_pos, dm_prev, dm_out>>
    /\ UNCHANGED <<pp_vars, sched_vars, cap_vars, cfg_vars>>

DemodNext == DemodChunk \/ DemodEnd

SpecDemod == DemodInit /\ [][DemodNext]_vars

-----------------------------------------------------------------------------
(* The predictor on its own: every input within the bounds, then the call. *)

PPInputs ==
    {[alts |-> a, minutes_ahead |-> h, step |-> s] :
        h \in 1..MaxHorizon, s \in 1..MaxStep,
        a \in UNION {[1..NumSamples(hh, ss) -> ElevValues] :
                        hh \in 1..MaxHorizon, ss \in 1..MaxStep}}

PPWellFormed(in) == Len(in.alts) = NumSamples(in.minutes_ahead, in.step)

PPScenarios ==
    {[alts |-> BoxProfile(ScenarioHorizon + 1, r, f),
      minutes_ahead |-> ScenarioHorizon, step |-> 1] :
        r \in 0..ScenarioHorizon, f \in 1..(ScenarioHorizon + 1)}

PPInit ==
    /\ pp_pc = "input"
    /\ pp_passes = <<>>
    /\ SchedParked
    /\ CapParked
    /\ CfgParked
    /\ DmParked
    /\ \E in \in {x \in PPInputs : PPWellFormed(x)} \cup PPScenarios :
        /\ pp_alts = in.alts
        /\ pp_minutes_ahead = in.minutes_ahead
        /\ pp_step = in.step

(* The call get_local_passes(sat, minutes_ahead, step_minutes) at t0 = 0.  *)
PPCall ==
    /\ pp_pc = "input"
    /\ pp_pc' = "done"
    /\ pp_passes' = get_local_passes(pp_alts, 0, pp_minutes_ahead, pp_step,
                                     ElevMaskDeg)
    /\ UNCHANGED <<pp_alts, pp_minutes_ahead, pp_step>>
    /\ UNCHANGED <<sched_vars, cap_vars, cfg_vars, dm_vars>>

PPNext == PPCall

SpecPasses == PPInit /\ [][PPNext]_vars

-----------------------------------------------------------------------------
(* Properties of get_local_passes (checked under SpecPasses).              *)

PPDone == pp_pc = "done"

(* Sample i (0-based) is at or above the mask.                             *)
PPAbove(i) == pp_alts[i + 1] >= ElevMaskDeg

PPLast == Len(pp_alts) - 1

(* The first samples of the maximal runs of samples at or above the mask.  *)
PPRunStarts == {i \in 0..PPLast : PPAbove(i) /\ (i = 0 \/ ~PPAbove(i - 1))}

(* The samples below the mask after sample i.                              *)
PPBelowAfter(i) == {j \in (i + 1)..PPLast : ~PPAbove(j)}

PPMin(S) == CHOOSE x \in S : \A y \in S : x <= y

(* The window the run starting at sample i stands for.                     *)
PPRunWindow(i) ==
    <<Minutes(i * pp_step),
      IF PPBelowAfter(i) = {} THEN Minutes(pp_minutes_ahead)
      ELSE Minutes(PPMin(PPBelowAfter(i)) * pp_step)>>

PPWindowSet == {pp_passes[k] : k \in 1..Len(pp_passes)}

(* C4: every window get_local_passes returns has AOS strictly before LOS.  *)
(* Stated as the claim states it; the code returns (t1, t1) when the       *)
(* elevation first reaches the mask at the last sample and that sample is  *)
(* at the horizon boundary.                                                *)
C4_AosBeforeLos ==
    PPDone => \A k \in 1..Len(pp_passes) : pp_passes[k][1] < pp_passes[k][2]

(* C5: the windows are sorted by AOS ascending and consecutive windows do  *)
(* not overlap: the earlier LOS is not later than the next AOS.            *)
C5_SortedDisjoint ==
    PPDone => \A k \in 1..(Len(pp_passes) - 1) :
                 /\ pp_passes[k][1] <= pp_passes[k + 1][1]
                 /\ pp_passes[k][2] <= pp_passes[k + 1][1]

(* C5's case: a call that returned two windows or more.                    *)
C5_Witness == PPDone /\ Len(pp_passes) >= 2

(* C6: one window per maximal run of samples at or above the mask, from    *)
(* the run's first sample to the first sample below the mask after it, or  *)
(* to t0 + minutes_ahead when no sample below follows; so the profile at   *)
(* or above the mask on samples 5..14 of 20 minutes gives the one window   *)
(* (5 min, 15 min), and a profile above the mask throughout gives one      *)
(* window closing at the horizon boundary.                                 *)
C6_OneWindowPerRun ==
    PPDone =>
      /\ Len(pp_passes) = Cardinality(PPRunStarts)
      /\ PPWindowSet = {PPRunWindow(i) : i \in PPRunStarts}
      /\ (pp_minutes_ahead = ScenarioHorizon
            /\ pp_alts = BoxProfile(ScenarioHorizon + 1, 5, 15))
         => pp_passes = <<<<Minutes(5), Minutes(15)>>>>
      /\ (\A i \in 0..PPLast : PPAbove(i))
         => pp_passes = <<<<0, Minutes(pp_minutes_ahead)>>>>

(* C6's case: the scenario profile, predicted.                             *)
C6_Witness ==
    /\ PPDone
    /\ pp_minutes_ahead = ScenarioHorizon
    /\ pp_alts = BoxProfile(ScenarioHorizon + 1, 5, 15)
    /\ Len(pp_passes) = 1

-----------------------------------------------------------------------------
(* Properties of the scheduler and its workers (checked under Spec).       *)

Launched == 1..Len(workers)

(* The thread of worker w is running run_record.                           *)
WorkerLive(w) ==
    workers[w].pc \in {"started", "sleeping", "naming", "opening", "capturing",
                       "finally", "release"}

(* Worker w has not released its satellite's name.                         *)
WorkerHolds(w) == workers[w].pc # "done"

(* The satellite a tick is deciding on.                                    *)
TickSat(t) == catalog[tick[t].idx].name

(* C1: between an acquire of a name and its release no other acquire of    *)
(* that name succeeds: no two workers of one satellite are unreleased at   *)
(* once, a tick that passed the check adds a name that is absent, and no   *)
(* two ticks are past the check for one satellite together.                *)
C1_OneWorkerPerSatellite ==
    /\ \A w1, w2 \in Launched :
         (w1 # w2 /\ workers[w1].sat = workers[w2].sat)
            => ~(WorkerHolds(w1) /\ WorkerHolds(w2))
    /\ \A t \in TickThreads :
         tick[t].pc = "add" => TickSat(t) \notin active_recordings
    /\ \A t1, t2 \in TickThreads :
         (t1 # t2 /\ tick[t1].pc = "add" /\ tick[t2].pc = "add")
            => TickSat(t1) # TickSat(t2)

(* C1's case: two ticks in flight found the same satellite in a matching   *)
(* window; one is inside the lock, the other waits for it.                 *)
C1_Witness ==
    \E t1, t2 \in TickThreads :
        /\ t1 # t2
        /\ tick[t1].pc \in {"check", "add"}
        /\ tick[t2].pc = "lock"
        /\ TickSat(t1) = TickSat(t2)

(* C2: a name is in active_recordings if and only if exactly one job for   *)
(* that satellite is pending or executing.  Stated as the claim states it; *)
(* a worker that raises before its try block leaves the name behind.       *)
C2_RegistryIffLiveJob ==
    \A name \in SatNames :
        name \in active_recordings
          <=> Cardinality({w \in Launched : workers[w].sat = name
                                            /\ WorkerLive(w)}) = 1

(* C3: a worker whose thread has ended has released its name (the name is  *)
(* absent, or held by a later worker that acquired it again).  Stated as   *)
(* the claim states it.                                                    *)
C3_ExitedWorkerReleased ==
    \A w \in Launched :
        workers[w].pc \in {"done", "crashed"}
          => \/ workers[w].sat \notin active_recordings
             \/ \E w2 \in Launched : /\ w2 > w
                                     /\ workers[w2].sat = workers[w].sat
                                     /\ WorkerLive(w2)

(* C7: a job launched by a tick that found now inside the effective        *)
(* interval has no start instant and duration = effective stop - now.      *)
(* Stated as the claim states it; the code passes stop - start.            *)
C7_ImmediateDuration ==
    \A w \in Launched :
        ~workers[w].deferred
          => /\ workers[w].eff_start <= workers[w].tick_now
             /\ workers[w].tick_now <= workers[w].eff_stop
             /\ DurationS(workers[w].duration_override)
                  = workers[w].eff_stop - workers[w].tick_now

(* C8: a job launched for a window whose effective start is ahead is       *)
(* launched less than 10 minutes before that start, does not get past its  *)
(* wait nor open the receiver before the start, and captures for           *)
(* effective stop - effective start; no job is launched for a window whose *)
(* effective start is 10 minutes or more away or whose effective stop is   *)
(* past.                                                                   *)
C8_DeferredLaunch ==
    \A w \in Launched :
        /\ workers[w].eff_start - workers[w].tick_now < Minutes(LeadMinutes)
        /\ workers[w].eff_stop >= workers[w].tick_now
        /\ workers[w].deferred
             => /\ workers[w].tick_now < workers[w].eff_start
                /\ workers[w].start_time_utc = workers[w].eff_start
                /\ DurationS(workers[w].duration_override)
                     = workers[w].eff_stop - workers[w].eff_start
                /\ workers[w].pc \notin {"started", "sleeping"}
                     => clock >= workers[w].eff_start
                /\ workers[w].captured
                     => workers[w].cap_begin >= workers[w].eff_start
                /\ (workers[w].captured /\ workers[w].outcome = "saved"
                    /\ workers[w].cause = "none")
                     => workers[w].cap_end
                          = workers[w].cap_begin
                            + (workers[w].eff_stop - workers[w].eff_start)

(* C8's case: a job launched ahead of its window slept, captured the whole *)
(* duration and ended.                                                     *)
C8_Witness ==
    \E w \in Launched :
        /\ workers[w].deferred
        /\ workers[w].wake > workers[w].tick_now
        /\ workers[w].captured
        /\ workers[w].pc = "done"
        /\ workers[w].outcome = "saved"
        /\ workers[w].cause = "none"

-----------------------------------------------------------------------------
(* Properties of one capture job (checked under SpecCapture).              *)

(* The reads that raised.                                                  *)
FailedReads == {j \in 1..Len(cap_reads) : ~cap_reads[j].ok}

(* The job is past the loop and past wf.close() or the exception's exit.   *)
CapPastClose == cap_pc \in {"sdrclose", "except", "finally", "release", "done"}

(* The frames of one full chunk of audio: CHUNK_SECONDS at OUT_SAMPLE_RATE. *)
FullChunkFrames == (OutSampleRate * ChunkMillis) \div 1000

(* What the job reports: run_record logged a failure, or                   *)
(* record_with_pyrtlsdr logged the file as saved.                          *)
CapOutcome ==
    IF \E n \in 1..Len(cap_log) : cap_log[n] = "Recording failed" THEN "failure"
    ELSE IF \E n \in 1..Len(cap_log) : cap_log[n] = "Saved WAV" THEN "success"
    ELSE "none"

(* C9: when the read of chunk k raises, it is the last read (no further    *)
(* read, no retry, each chunk read once), no exception propagates, the     *)
(* file is closed holding exactly the frames of chunks 1..k-1, and the     *)
(* job ends with the satellite's name released.                            *)
C9_ReadFailureStops ==
    \A j \in FailedReads :
        /\ j = Len(cap_reads)
        /\ \A m \in 1..Len(cap_reads) : cap_reads[m].chunk = m
        /\ cap_exc = "none"
        /\ Len(cap_written) = cap_reads[j].chunk - 1
        /\ \A m \in 1..Len(cap_written) :
             /\ cap_written[m].chunk = m
             /\ cap_written[m].frames = FullChunkFrames
        /\ cap_pc # "process"
        /\ CapPastClose => cap_wf = "closed"
        /\ cap_pc = "done" => CapSat \notin active_recordings

(* C9's case: the read of chunk 5 of 10 raised and the job has ended.      *)
C9_Witness ==
    /\ cap_pc = "done"
    /\ TotalChunks(cap_duration) = 10
    /\ Len(cap_reads) = 5
    /\ ~cap_reads[5].ok
    /\ Len(cap_written) = 4
    /\ cap_wf = "closed"
    /\ CapSat \notin active_recordings

(* C10: the outcome of an ended job names the failure: after a read error  *)
(* it is not a success, after an acquisition failure it is a failure, and  *)
(* a success wrote every chunk.  Stated as the claim states it; after a    *)
(* read error the code logs the file as saved and returns normally.        *)
C10_OutcomeNamesFailure ==
    cap_pc = "done" =>
        /\ FailedReads # {} => CapOutcome # "success"
        /\ cap_exc = "acquire" => CapOutcome = "failure"
        /\ CapOutcome = "success" => Len(cap_written) = TotalChunks(cap_duration)


(* record_with_pyrtlsdr has returned or raised.                            *)
CapExited == cap_pc \in {"except", "finally", "release", "done"}

(* C11: once the wave file has been opened it is closed on every exit of   *)
(* record_with_pyrtlsdr (normal completion, read failure, an exception     *)
(* raised while a chunk is processed or written), and so before the name   *)
(* is released.  Stated as the claim states it; no statement closes the    *)
(* file when a chunk's processing raises.                                  *)
C11_ContainerClosed ==
    (CapExited /\ cap_wf # "none") => cap_wf = "closed"

(* C12: once the receiver has been opened it is closed on every exit of    *)
(* record_with_pyrtlsdr, exactly once and only after it was opened, and a  *)
(* job that has ended does not hold it.                                    *)
C12_ReceiverReleased ==
    /\ receiver <=> cap_sdr = "open"
    /\ cap_sdr = "none" <=> (cap_pc = "call" \/ cap_exc = "acquire")
    /\ cap_pc \in {"configure", "openwav", "loop", "process", "close", "sdrclose"}
         => (cap_sdr = "open" /\ cap_closes = 0)
    /\ CapExited
         => /\ cap_sdr # "open"
            /\ ~receiver
            /\ cap_closes = (IF cap_exc = "acquire" THEN 0 ELSE 1)

(* C12's case: an exception raised while a chunk was processed, after a    *)
(* chunk written, and the job has ended with the receiver closed once.     *)
C12_Witness ==
    /\ cap_pc = "done"
    /\ cap_exc = "process"
    /\ Len(cap_written) >= 1
    /\ cap_sdr = "closed"
    /\ cap_closes = 1
    /\ ~receiver


-----------------------------------------------------------------------------
(* Properties of job failures and of the tick's loop over the catalog.     *)

(* C13: when sdr = RtlSdr() raises, the job ends before the wave file is   *)
(* opened (record_with_pyrtlsdr does not get past its first statement),    *)
(* run_record reports the failure and releases the name, and no tick       *)
(* thread is stopped by it.                                                *)
C13_AcquireFailureAborts ==
    \A w \in Launched :
        workers[w].cause = "acquire"
          => /\ ~workers[w].captured
             /\ workers[w].cap_begin = 0
             /\ workers[w].outcome = "failed"
             /\ workers[w].pc \in {"finally", "release", "done"}
             /\ workers[w].pc = "done"
                  => \/ workers[w].sat \notin active_recordings
                     \/ \E w2 \in Launched : /\ w2 > w
                                             /\ workers[w2].sat = workers[w].sat
                                             /\ WorkerLive(w2)
             /\ \A t \in TickThreads : tick[t].pc \notin {"raised", "exited"}

(* C13's case: a job failed to open the receiver and ended; a later tick   *)
(* launched the next job for the same satellite.                           *)
C13_Witness ==
    \E w, w2 \in Launched :
        /\ workers[w].cause = "acquire"
        /\ workers[w].pc = "done"
        /\ w2 > w
        /\ workers[w2].sat = workers[w].sat
        /\ workers[w2].tick_now > workers[w].tick_now
        /\ workers[w2].captured

(* C14: when the handling of one catalog entry raises in a tick, every     *)
(* other entry of the catalog has been or will be handled in that tick.    *)
(* Stated as the claim states it; the exception leaves the loop, so the    *)
(* entries after the failing one are never reached.                        *)
C14_ErrorSkipsOnlyThatEntry ==
    \A t \in TickThreads :
        tick[t].pc = "raised"
          => \A k \in 1..Len(catalog) : k # tick[t].idx => k < tick[t].idx

(* Worker w is in run_record before the end of its wait.                   *)
Waiting(w) == workers[w].pc \in {"started", "sleeping"}

(* C20: a worker launched with a future start holds its satellite's name   *)
(* during the whole wait and not the receiver: it sleeps until the start,  *)
(* it opens the receiver at the start or later, and no tick adds the name  *)
(* while it waits.                                                         *)
C20_WaitHoldsNameNotReceiver ==
    \A w \in Launched :
        workers[w].deferred
          => /\ Waiting(w) => /\ workers[w].sat \in active_recordings
                              /\ ~workers[w].captured
             /\ workers[w].pc = "sleeping"
                  => workers[w].wake = workers[w].start_time_utc
             /\ workers[w].pc \in {"naming", "opening", "capturing"}
                  => clock >= workers[w].start_time_utc
             /\ workers[w].captured
                  => workers[w].cap_begin >= workers[w].start_time_utc
             /\ \A t \in TickThreads :
                  (tick[t].pc = "add" /\ TickSat(t) = workers[w].sat)
                     => ~Waiting(w)

(* C20's case: one job sleeps until its start while a job for the other    *)
(* satellite holds the receiver, and a tick is testing the sleeping        *)
(* satellite's name.                                                       *)
C20_Witness ==
    \E w1, w2 \in Launched : \E t \in TickThreads :
        /\ workers[w1].sat # workers[w2].sat
        /\ workers[w1].deferred
        /\ workers[w1].pc = "sleeping"
        /\ clock > workers[w1].tick_now
        /\ workers[w2].pc = "capturing"
        /\ receiver
        /\ tick[t].pc = "check"
        /\ TickSat(t) = workers[w1].sat
        /\ TickSat(t) \in active_recordings


-----------------------------------------------------------------------------
(* Properties of load_config (checked under SpecReload).                   *)

(* C15: every pair load_config returns is a whole one: the satellite map   *)
(* is the one built from the returned config, and the config is the text   *)
(* the file held at the modification time the call saw, or a later one.    *)
(* Stated as the claim states it; the three globals are assigned and read  *)
(* one by one with no lock.                                                *)
C15_AtomicReload ==
    \A t \in TickThreads :
        loader[t].pc = "returned"
          => /\ loader[t].ret.sats = BuildSats(loader[t].ret.config)
             /\ \E k \in loader[t].mtime..Len(cfg_file.past) :
                   cfg_file.past[k] = loader[t].ret.config

(* C16: a load of a text with a malformed entry does not fail: it returns  *)
(* the catalog of the well-formed entries.  Stated as the claim states it; *)
(* the first entry lacking a key raises KeyError out of load_config.       *)
C16_MalformedEntryExcludedOnly ==
    \A t \in TickThreads :
        (loader[t].pc \in {"returned", "raised"} /\ loader[t].data # <<>>)
          => /\ loader[t].pc = "returned"
             /\ loader[t].ret.sats = WellFormed(loader[t].data)


-----------------------------------------------------------------------------
(* Properties of the chunking and of the frame count (SpecCapture).        *)

(* The loop has ended with every chunk read and written.                   *)
CapAllChunks ==
    /\ cap_pc \in {"close", "sdrclose", "finally", "release", "done"}
    /\ cap_exc = "none"
    /\ FailedReads = {}

RECURSIVE SumMicros(_)
SumMicros(n) == IF n = 0 THEN 0 ELSE SumMicros(n - 1) + cap_reads[n].micros

RECURSIVE SumSamples(_)
SumSamples(n) == IF n = 0 THEN 0 ELSE SumSamples(n - 1) + cap_reads[n].samples

RECURSIVE SumFrames(_)
SumFrames(n) == IF n = 0 THEN 0 ELSE SumFrames(n - 1) + cap_written[n].frames

(* The time the request leaves for chunk n of n.                           *)
LastRemaining == cap_duration - ChunkMicros * (Len(cap_reads) - 1)

(* What C17 says of the chunks read so far and, once all are read, of      *)
(* their number; the last chunk is left to the two statements below.       *)
ChunksInOrder ==
    /\ Len(cap_reads) <= CeilDiv(cap_duration, ChunkMicros)
    /\ \A m \in 1..Len(cap_reads) :
         /\ cap_reads[m].chunk = m
         /\ m < CeilDiv(cap_duration, ChunkMicros)
              => cap_reads[m].micros = ChunkMicros
    /\ CapAllChunks
         => /\ Len(cap_reads) = CeilDiv(cap_duration, ChunkMicros)
            /\ cap_duration = 10 * MicrosPerSecond
                 => /\ Len(cap_reads) = 40
                    /\ cap_reads[40].micros = ChunkMicros
            /\ cap_duration = 10 * MicrosPerSecond + 100 * MicrosPerMilli
                 => /\ Len(cap_reads) = 41
                    /\ cap_reads[41].micros = 100 * MicrosPerMilli

(* C17 as stated: ceil(D / 0.25) chunks in order, each but the last of     *)
(* 0.25 s, the last of D - 0.25*(n-1) s, so that they sum to D.  The code  *)
(* never asks for less than 0.001 s: for D = 0.0005 s and D = 0.2505 s the *)
(* last chunk covers 0.001 s and the sum exceeds D.                        *)
C17_ChunksSumToDuration ==
    /\ ChunksInOrder
    /\ CapAllChunks
         => /\ cap_reads[Len(cap_reads)].micros = LastRemaining
            /\ SumMicros(Len(cap_reads)) = cap_duration

(* C17, amended: ceil(D / 0.25) chunks in order, each but the last of      *)
(* 0.25 s, the last of max(0.001, D - 0.25*(n-1)) s; they sum to D when    *)
(* D - 0.25*(n-1) is 0.001 s or more and to less than D + 0.001 s          *)
(* otherwise (10 s gives 40 whole chunks, 10.1 s gives 41, the last of     *)
(* 0.1 s).                                                                 *)
C17_ChunksSumToDurationFloored ==
    /\ ChunksInOrder
    /\ CapAllChunks
         => /\ cap_reads[Len(cap_reads)].micros = Max2(MinChunkMicros, LastRemaining)
            /\ LastRemaining >= MinChunkMicros
                 => SumMicros(Len(cap_reads)) = cap_duration
            /\ SumMicros(Len(cap_reads)) >= cap_duration
            /\ SumMicros(Len(cap_reads)) < cap_duration + MinChunkMicros

(* C17's case: the capture of 10.1 s has read its 41 chunks.               *)
C17_Witness ==
    /\ CapAllChunks
    /\ cap_pc = "done"
    /\ cap_duration = 10 * MicrosPerSecond + 100 * MicrosPerMilli
    /\ Len(cap_reads) = 41
    /\ cap_reads[41].micros = 100 * MicrosPerMilli

(* C18: when every chunk was read and written, the frames written are the  *)
(* samples delivered divided by 50 and by 4, that is by 200, to within one *)
(* frame, whichever way each chunk was decimated; the first chunk's block  *)
(* ph is one sample shorter than its input.                                *)
C18_FramesAreSamplesOver200 ==
    CapAllChunks
      => /\ Len(cap_written) = Len(cap_reads)
         /\ cap_written[1].frames
              = CeilDiv(cap_reads[1].samples - 1, DecimateStage1 * DecimateStage2)
         /\ \A m \in 2..Len(cap_written) :
              cap_written[m].frames
                = CeilDiv(cap_reads[m].samples, DecimateStage1 * DecimateStage2)
         /\ (DecimateStage1 * DecimateStage2) * SumFrames(Len(cap_written))
              > SumSamples(Len(cap_reads)) - DecimateStage1 * DecimateStage2
         /\ (DecimateStage1 * DecimateStage2) * SumFrames(Len(cap_written))
              < SumSamples(Len(cap_reads)) + DecimateStage1 * DecimateStage2

(* C18's case: a capture whose last chunk is a part of a chunk has ended   *)
(* with chunks decimated either way.                                       *)
C18_Witness ==
    /\ CapAllChunks
    /\ cap_pc = "done"
    /\ Len(cap_written) >= 3
    /\ cap_reads[Len(cap_reads)].micros < ChunkMicros
    /\ \E m \in 1..Len(cap_written) : cap_written[m].fallback
    /\ \E m \in 1..Len(cap_written) : ~cap_written[m].fallback

-----------------------------------------------------------------------------
(* Properties of the launches over time (Spec).                            *)

(* Worker v was launched after worker w, for the same satellite and the    *)
(* same pass (their effective intervals meet), by a tick whose now lies    *)
(* inside the effective interval worker w was launched for.                *)
RelaunchedInside(w, v) ==
    /\ w < v
    /\ workers[v].sat = workers[w].sat
    /\ workers[v].eff_start <= workers[w].eff_stop
    /\ workers[w].eff_start <= workers[v].eff_stop
    /\ workers[w].eff_start <= workers[v].tick_now
    /\ workers[v].tick_now <= workers[w].eff_stop

(* C22: no two jobs are launched for one pass: a job launched after        *)
(* another for the same satellite (the registry lets it be launched only   *)
(* once the earlier has released the name) was not launched by a tick      *)
(* whose now is inside the earlier job's effective interval.  Stated as    *)
(* the claim states it; the code keeps no record of the passes served, and *)
(* the tick after an early exit launches again.                            *)
C22_OneJobPerPass ==
    \A w \in Launched : \A v \in Launched : ~RelaunchedInside(w, v)

-----------------------------------------------------------------------------
(* Properties of the coverage of the passes (SpecFleet).                   *)

(* The effective starts, still ahead, of the windows the first check (at   *)
(* instant 0) predicts for satellite s.                                    *)
AheadStarts(s) ==
    LET passes == PassesAt[profile[s], 0]
    IN  {passes[k][1] - GuardSeconds : k \in 1..Len(passes)} \ {st \in Int : st <= 0}

(* No job other than one for the window starting at st was ever launched   *)
(* for satellite s: its name was free until that window's job took it.     *)
FreeBefore(s, st) ==
    \A w \in Launched : workers[w].sat = s => workers[w].eff_start = st

(* C23: when every entry of the catalog is well formed and the first check *)
(* has returned, a window of a satellite whose effective start was ahead   *)
(* at that check and is now past, the satellite having been free until     *)
(* then, has a job, and a job for it that was launched ahead and slept     *)
(* until that start began its capture at that start.  Stated as the claim  *)
(* states it; the job is launched, but its capture begins only if the one  *)
(* receiver can be opened at that instant: while another satellite's       *)
(* capture holds it, RtlSdr() raises and the pass is lost.                 *)
C23_NoPassMissed ==
    (/\ \A k \in 1..Len(catalog) : ~FloatRaises(catalog[k].freq_mhz)
     /\ tick["main"].pc = "done")
      => \A s \in DOMAIN profile : \A st \in AheadStarts(s) :
            (clock > st /\ st < Minutes(LeadMinutes) /\ FreeBefore(s, st))
              => /\ \E w \in Launched :
                      /\ workers[w].sat = s
                      /\ workers[w].eff_start = st
                 /\ \A w \in Launched :
                      (/\ workers[w].sat = s
                       /\ workers[w].eff_start = st
                       /\ workers[w].tick_now < st
                       /\ workers[w].wake = st)
                        => /\ workers[w].captured
                           /\ workers[w].cap_begin = st

-----------------------------------------------------------------------------
(* Properties of the fallback decimation (SpecCapture).                    *)

(* The chunks written by the stride fallback.                              *)
FallbackChunks == {m \in 1..Len(cap_written) : cap_written[m].fallback}

(* C21: a chunk whose decimation failed is written all the same, with the  *)
(* frames of ph[::200] (every 200th demodulated sample); the failure       *)
(* leaves no exception and ends no loop, so the chunk after it is read     *)
(* and may be decimated by the filter again, and a job with such chunks    *)
(* that met no other failure has processed max(1, ceil(D / 0.25)) chunks,  *)
(* the number a job without them processes.                                *)
C21_DecimationFailureIsLocal ==
    /\ \A m \in FallbackChunks :
         /\ cap_written[m].chunk = m
         /\ cap_reads[m].ok
         /\ cap_written[m].frames
              = CeilDiv(PhLen(cap_reads[m].samples, m - 1),
                        DecimateStage1 * DecimateStage2)
         /\ cap_written[m].frames >= 1
    /\ (FallbackChunks # {} /\ FailedReads = {} /\ cap_exc = "none")
         => /\ cap_pc = "process" => ENABLED CapProcess
            /\ cap_pc = "loop" => Len(cap_written) = cap_i
            /\ cap_pc = "close" => cap_i = TotalChunks(cap_duration)
            /\ CapAllChunks
                 => /\ Len(cap_written) = TotalChunks(cap_duration)
                    /\ Len(cap_written) = Max2(1, CeilDiv(cap_duration, ChunkMicros))
            /\ cap_pc = "done" => cap_wf = "closed"

(* C21's case: the decimation of chunk 2 of 4 failed, chunk 3 was          *)
(* decimated by the filter, chunk 4 failed again, and the job has ended    *)
(* with all four written.                                                  *)
C21_Witness ==
    /\ cap_pc = "done"
    /\ cap_exc = "none"
    /\ FailedReads = {}
    /\ TotalChunks(cap_duration) = 4
    /\ Len(cap_written) = 4
    /\ FallbackChunks = {2, 4}
    /\ cap_written[2].frames = FullChunkFrames

-----------------------------------------------------------------------------
(* Properties of the chunk-wise demodulation (SpecDemod).                  *)

RECURSIVE Concat(_)
Concat(qs) == IF qs = <<>> THEN <<>> ELSE Head(qs) \o Concat(Tail(qs))

(* C19: after any number of chunks, processed in order, the anchor is the  *)
(* last raw sample read and the blocks ph put end to end are               *)
(* fm_demodulate of all the samples read so far taken as one block: one    *)
(* element per sample and its predecessor in the stream, none dropped or   *)
(* doubled where two chunks meet.                                          *)
C19_ChunkwiseEqualsOneShot ==
    /\ dm_pos = SeqSum(SubSeq(dm_cuts, 1, dm_i))
    /\ Len(dm_out) = dm_i
    /\ dm_i >= 1
         => /\ dm_prev = dm_stream[dm_pos]
            /\ Concat(dm_out)
                 = fm_demodulate(SubSeq(dm_stream, 1, dm_pos), NoSample).ph
            /\ Len(Concat(dm_out)) = dm_pos - 1
            /\ \A j \in 1..(dm_pos - 1) :
                 Concat(dm_out)[j] = Angle(dm_stream[j + 1], dm_stream[j])
    /\ dm_pc = "done" => dm_pos = Len(dm_stream)

(* C19's case: a stream read in three blocks or more, with a turn of phase *)
(* where two blocks meet, demodulated to its end.                          *)
C19_Witness ==
    /\ dm_pc = "done"
    /\ Len(dm_cuts) >= 3
    /\ dm_stream[dm_cuts[1] + 1] # dm_stream[dm_cuts[1]]
    /\ Len(Concat(dm_out)) = Len(dm_stream) - 1

=============================================================================
